---- MODULE Spec2Model ----
(***************************************************************************)
(* Model of the Panorama command runner (src/pano-tui.py): the button      *)
(* handler, the per-device dispatch loop run_execute_command and the       *)
(* per-job polling loop track_job_progress, as asyncio workers whose code  *)
(* between two awaits is one atomic step.  An exception that no except     *)
(* clause catches ends the worker it is raised in.                         *)
(***************************************************************************)
EXTENDS Integers, Sequences, FiniteSets, TLC

VARIABLES
    username,            \* value of the #username Input widget
    password,            \* value of the #password Input widget
    pano_ip,             \* value of the #pano_ip Input widget
    version_value,       \* value of the #version_select Select widget
    selected,            \* SelectionList.selected: the selected serials, in order
    serial_to_hostname,  \* self.serial_to_hostname
    log,                 \* the lines written to the RichLog, oldest first
    writer,              \* history: who wrote log[i]
    workers,             \* the run_execute_command workers, in spawn order
    trackers,            \* the track_job_progress workers, in spawn order
    network,             \* the requests that await their response
    presses,             \* operator inputs handled so far: presses and edits
    sent,                \* requests issued so far
    options,             \* the options of the #device_list SelectionList
    version_options,     \* the options of the #version_select Select
    fetchers,            \* the fetch_devices workers, in spawn order
    checkers,            \* the run_version_check workers, in spawn order
    script               \* the run of palo_upgrade_script.py

vars == <<username, password, pano_ip, version_value, selected,
          serial_to_hostname, log, writer, workers, trackers, network,
          presses, sent, options, version_options, fetchers, checkers, script>>

----------------------------------------------------------------------------
(* Bounds of the model. *)

\* how many inputs the environment supplies in a run: button presses handled
\* plus requests sent to the manager
MaxInputs == 4

----------------------------------------------------------------------------
(* Python values. *)

None == "None"

BLANK == "Select.BLANK"

\* URL_CHOICES: "cmd" is the template, cut at its {version} placeholder; an
\* entry without "generates_job" has no such key.
URL_CHOICES ==
    ("Software Version Check" :>
        [cmd |-> <<"<request><system><software><check></check></software></system></request>">>])
 @@ ("Download Version" :>
        [cmd |-> <<"<request><system><software><download><version>", "{version}",
                   "</version></download></software></system></request>">>,
         generates_job |-> TRUE])
 @@ ("Install Version" :>
        [cmd |-> <<"<request><system><software><install><version>", "{version}",
                   "</version></install></software></system></request>">>,
         generates_job |-> TRUE])
 @@ ("Reboot" :>
        [cmd |-> <<"<request><restart><system></system></restart></request>">>])

\* command_info.get("generates_job"), as a truth value
GeneratesJob(command_info) ==
    "generates_job" \in DOMAIN command_info /\ command_info.generates_job

\* str.format(version=version): every {version} piece becomes the value
Format(template, version) ==
    [i \in DOMAIN template |->
        IF template[i] = "{version}" THEN version ELSE template[i]]

\* truth value of a str-or-None
Truthy(s) == s # None /\ s # ""

\* dict.get(serial, serial) on self.serial_to_hostname
HostnameOf(serial) ==
    IF serial \in DOMAIN serial_to_hostname
    THEN serial_to_hostname[serial] ELSE serial

----------------------------------------------------------------------------
(* Python str.  A string value stays a TLA+ string; Chars gives the code    *)
(* points of the strings that the program compares, lowers or searches.     *)

Chars ==
    ("fw" :> <<102, 119>>)
 @@ ("fw-a" :> <<102, 119, 45, 97>>)
 @@ ("fw-b" :> <<102, 119, 45, 98>>)
 @@ ("None" :> <<78, 111, 110, 101>>)
 @@ ("001" :> <<48, 48, 49>>)
 @@ ("0011" :> <<48, 48, 49, 49>>)
 @@ ("0022" :> <<48, 48, 50, 50>>)
 @@ ("0033" :> <<48, 48, 51, 51>>)
 @@ ("0044" :> <<48, 48, 52, 52>>)
 @@ (" (" :> <<32, 40>>)
 @@ (")" :> <<41>>)
 @@ ("Authentication failed" :> <<65, 117, 116, 104, 101, 110, 116, 105, 99, 97, 116, 105, 111, 110, 32, 102, 97, 105, 108, 101, 100>>)
 @@ ("AUTHENTICATION FAILED: bad password" :> <<65, 85, 84, 72, 69, 78, 84, 73, 67, 65, 84, 73, 79, 78, 32, 70, 65, 73, 76, 69, 68, 58, 32, 98, 97, 100, 32, 112, 97, 115, 115, 119, 111, 114, 100>>)
 @@ ("Invalid target" :> <<73, 110, 118, 97, 108, 105, 100, 32, 116, 97, 114, 103, 101, 116>>)
 @@ ("Unknown API error" :> <<85, 110, 107, 110, 111, 119, 110, 32, 65, 80, 73, 32, 101, 114, 114, 111, 114>>)
 @@ ("authentication failed" :> <<97, 117, 116, 104, 101, 110, 116, 105, 99, 97, 116, 105, 111, 110, 32, 102, 97, 105, 108, 101, 100>>)

\* the characters of a text put together from pieces, as an f-string does
CharsOf(pieces) ==
    LET RECURSIVE Cat(_)
        Cat(i) == IF i > Len(pieces) THEN <<>> ELSE Chars[pieces[i]] \o Cat(i + 1)
    IN  Cat(1)

\* a < b on str: lexicographic on code points, a proper prefix being smaller
StrLess(a, b) ==
    \E i \in 1..(Len(a) + 1) :
        /\ i <= Len(b)
        /\ \A j \in 1..(i - 1) : a[j] = b[j]
        /\ i = Len(a) + 1 \/ a[i] < b[i]

\* str.lower() on the letters A-Z
Lower(a) == [i \in DOMAIN a |-> IF a[i] \in 65..90 THEN a[i] + 32 ELSE a[i]]

\* needle in hay
Contains(needle, hay) ==
    \E i \in 0..(Len(hay) - Len(needle)) : SubSeq(hay, i + 1, i + Len(needle)) = needle

\* Selection(f"{hostname} ({serial})", serial): the label and the value
Selection(hostname, serial) ==
    [prompt |-> <<hostname, " (", serial, ")">>, value |-> serial]

\* list.sort(key=lambda sel: sel.prompt): stable, ascending on the label
RECURSIVE SortByPrompt(_)
SortByPrompt(sels) ==
    IF sels = <<>> THEN <<>>
    ELSE LET last == sels[Len(sels)]
             front == SortByPrompt(SubSeq(sels, 1, Len(sels) - 1))
             n == Cardinality({i \in DOMAIN front :
                      ~StrLess(CharsOf(last.prompt), CharsOf(front[i].prompt))})
         IN  SubSeq(front, 1, n) \o <<last>> \o SubSeq(front, n + 1, Len(front))

----------------------------------------------------------------------------
(* xml.etree.ElementTree: an element is its tag, attributes, text and       *)
(* children; find/findall walk a relative path of tags in document order.   *)

E(tag, attrib, text, kids) ==
    [tag |-> tag, attrib |-> attrib, text |-> text, kids |-> kids]

\* the None that Element.find returns when nothing matches
NoNode == E("", {}, None, <<>>)

RECURSIVE FindAllIn(_, _, _)
RECURSIVE FindAll(_, _)
\* the matches of path below each of kids[i..], concatenated
FindAllIn(kids, i, path) ==
    IF i > Len(kids) THEN <<>>
    ELSE (IF kids[i].tag = Head(path) THEN FindAll(kids[i], Tail(path)) ELSE <<>>)
         \o FindAllIn(kids, i + 1, path)

\* Element.findall("./a/b"), path = <<"a", "b">>
FindAll(node, path) ==
    IF path = <<>> THEN <<node>> ELSE FindAllIn(node.kids, 1, path)

\* Element.find("./a/b"): the first match, or None
Find(node, path) ==
    LET all == FindAll(node, path) IN IF all = <<>> THEN NoNode ELSE all[1]

RECURSIVE IterIn(_, _)
RECURSIVE Iter(_)
\* the descendants of kids[i..], in document order
IterIn(kids, i) ==
    IF i > Len(kids) THEN <<>>
    ELSE <<kids[i]>> \o Iter(kids[i]) \o IterIn(kids, i + 1)

\* the descendants of node, in document order
Iter(node) == IterIn(node.kids, 1)

\* Element.find(".//tag"): the first descendant with that tag, or None
FindDeep(node, tag) ==
    LET hits == SelectSeq(Iter(node), LAMBDA n : n.tag = tag)
    IN  IF hits = <<>> THEN NoNode ELSE hits[1]

\* name in Element.attrib, and Element.attrib[name]
HasAttrib(node, name) == \E a \in node.attrib : a[1] = name

Attrib(node, name) == (CHOOSE a \in node.attrib : a[1] = name)[2]

\* ET.fromstring(response.text): the root, or ParseError on a body that is
\* not well-formed XML
WellFormed(text) == text.wellformed

----------------------------------------------------------------------------
(* What the manager can answer.  A reply is either an exception raised by   *)
(* requests.get (no response) or a response with a status code and a body.  *)

Leaf(tag, text) == E(tag, {}, text, <<>>)

Xml(root) == [wellformed |-> TRUE, root |-> root]

Malformed == [wellformed |-> FALSE]

Response(status, kids) == E("response", {<<"status", status>>}, None, kids)

\* <response status="success"><result><job>42</job></result></response>
JobBody(job) == Xml(Response("success", <<E("result", {}, None, <<Leaf("job", job)>>)>>))

\* <response status="success"><result/></response>
NoJobBody == Xml(Response("success", <<Leaf("result", None)>>))

\* <response status="error"><msg><line>...</line></msg></response>
ErrorBody(msg) == Xml(Response("error", <<E("msg", {}, None, <<Leaf("line", msg)>>)>>))

\* <response status="success"><result><job>...</job></result></response> of
\* "show jobs id": the job's children as given
SnapshotBody(kids) ==
    Xml(Response("success", <<E("result", {}, None, <<E("job", {}, None, kids)>>)>>))

Details(lines) == E("details", {}, None, [i \in DOMAIN lines |-> Leaf("line", lines[i])])

JobIds == {"42"}

\* the bodies a dispatch request is answered with
DispatchBodies ==
    {JobBody(j) : j \in JobIds}
      \cup {JobBody(None), NoJobBody, ErrorBody("Invalid target"), Malformed}

\* the bodies a job status query is answered with
PollBodies ==
    { SnapshotBody(<<Leaf("status", "FIN"), Leaf("result", "OK")>>),
      SnapshotBody(<<Leaf("status", "FIN"), Leaf("result", "FAIL"),
                     Details(<<"Image not found", "Download failed">>)>>),
      SnapshotBody(<<Leaf("status", "FIN"), Leaf("result", "FAIL")>>),
      SnapshotBody(<<Leaf("status", "FIN"), Leaf("result", "FAIL"),
                     Details(<<"Image not found", None>>)>>),
      SnapshotBody(<<Leaf("status", "FIN"), Leaf("result", None)>>),
      SnapshotBody(<<Leaf("status", "FIN")>>),
      SnapshotBody(<<Leaf("status", "ACT"), Leaf("progress", "50")>>),
      SnapshotBody(<<Leaf("status", "ACT"), Leaf("progress", None)>>),
      SnapshotBody(<<Leaf("status", "ACT")>>),
      SnapshotBody(<<Leaf("status", "PEND")>>),
      SnapshotBody(<<Leaf("status", None)>>),
      ErrorBody("job 42 not found"),
      Malformed }

\* exceptions requests.get raises: subclasses of RequestException
\* <response status="error"><msg>...</msg></response>
PlainErrorBody(msg) == Xml(Response("error", <<Leaf("msg", msg)>>))

\* <response status="error"/>
BareErrorBody == Xml(Response("error", <<>>))

\* <entry><hostname>..</hostname><serial>..</serial></entry>
Device(hostname, serial) ==
    E("entry", {}, None, <<Leaf("hostname", hostname), Leaf("serial", serial)>>)

\* the entries of a device list: two devices of one hostname, a device whose
\* hostname starts another's, one with an empty hostname element, one with
\* no hostname and one with no serial
Entries ==
    { Device("fw-a", "0011"), Device("fw-a", "001"), Device("fw", "0022"),
      Device(None, "0033"),
      E("entry", {}, None, <<Leaf("serial", "0044")>>),
      E("entry", {}, None, <<Leaf("hostname", "fw-b")>>) }

\* up to three different entries, in any order
EntryLists ==
    {<<>>} \cup {<<a>> : a \in Entries}
      \cup {p \in Entries \X Entries : p[1] # p[2]}
      \cup {p \in Entries \X Entries \X Entries :
               p[1] # p[2] /\ p[1] # p[3] /\ p[2] # p[3]}

\* the reply to "show devices connected"
DevicesBody(entries) ==
    Xml(Response("success", <<E("result", {}, None, <<E("devices", {}, None, entries)>>)>>))

\* the reply to the software check: one <entry><version> per release
VersionsBody(versions) ==
    Xml(Response("success",
          <<E("result", {}, None,
              <<E("sw-updates", {}, None,
                  <<E("versions", {}, None,
                      [i \in DOMAIN versions |->
                          E("entry", {}, None, <<Leaf("version", versions[i])>>)])>>)>>)>>))

TransportFailures == {"ConnectionError", "Timeout"}

Replies(bodies) ==
    {[raises |-> x] : x \in TransportFailures}
      \cup {[status_code |-> 200, text |-> b] : b \in bodies}
      \cup {[status_code |-> 500, text |-> Malformed]}

\* the exception a reply ends the try block's first two lines with (the one
\* requests.get raised, or raise_for_status's HTTPError), or None
RequestException(reply) ==
    IF "raises" \in DOMAIN reply THEN [exc |-> reply.raises]
    ELSE IF reply.status_code >= 400
         THEN [exc |-> "HTTPError", status_code |-> reply.status_code]
         ELSE [exc |-> None]

----------------------------------------------------------------------------
(* The lines the program writes to the log: one record per log.write, its   *)
(* kind naming the format string and its fields the values formatted in.    *)

\* "[red]Error: Username and Password are required.[/red]"
CredentialsRequired == [kind |-> "CredentialsRequired"]

\* "[red]Error: Please run a version check and select a version first.[/red]"
SelectVersionFirst == [kind |-> "SelectVersionFirst"]

\* "[red]Error: No devices selected.[/red]"
NoDevicesSelected == [kind |-> "NoDevicesSelected"]

\* "--- Starting '{command_name}' on {len(selected_serials)} device(s) ---"
Starting(command_name, n) == [kind |-> "Starting", command_name |-> command_name, count |-> n]

\* "--- Running '{command_name}' on {hostname} ---"
Running(command_name, hostname) ==
    [kind |-> "Running", command_name |-> command_name, hostname |-> hostname]

\* "Job enqueued (ID: {job_id}) on {hostname}. Monitoring..."
JobEnqueued(job_id, hostname) ==
    [kind |-> "JobEnqueued", job_id |-> job_id, hostname |-> hostname]

\* "[red]Error: Command '{command_name}' did not return a job ID for {hostname}.[/red]"
NoJobId(command_name, hostname) ==
    [kind |-> "NoJobId", command_name |-> command_name, hostname |-> hostname]

\* "[green]Success (Status Code: {response.status_code})[/green]"
Success(status_code) == [kind |-> "Success", status_code |-> status_code]

\* "[red]Error for {hostname}: {e}[/red]"
ErrorFor(hostname, e) == [kind |-> "ErrorFor", hostname |-> hostname, e |-> e]

\* "[yellow]Warning: Could not determine status for job {job_id} on {hostname}.[/yellow]"
CouldNotDetermine(job_id, hostname) ==
    [kind |-> "CouldNotDetermine", job_id |-> job_id, hostname |-> hostname]

\* "[green]Job {job_id} on {hostname} FINISHED successfully.[/green]"
FinishedOk(job_id, hostname) ==
    [kind |-> "FinishedOk", job_id |-> job_id, hostname |-> hostname]

\* "[red]Job {job_id} on {hostname} FINISHED with failure.[/red]\n{details}"
FinishedFailure(job_id, hostname, details) ==
    [kind |-> "FinishedFailure", job_id |-> job_id, hostname |-> hostname,
     details |-> details]

\* "  -> Job {job_id} on {hostname} is downloading... {progress_node.text}% complete."
Progress(job_id, hostname, progress) ==
    [kind |-> "Progress", job_id |-> job_id, hostname |-> hostname,
     progress |-> progress]

\* "  -> Job {job_id} on {hostname} is ongoing. Status: {status}"
Ongoing(job_id, hostname, status) ==
    [kind |-> "Ongoing", job_id |-> job_id, hostname |-> hostname, status |-> status]

\* "[red]Error checking job {job_id} on {hostname}: {e}[/red]"
ErrorChecking(job_id, hostname, e) ==
    [kind |-> "ErrorChecking", job_id |-> job_id, hostname |-> hostname, e |-> e]

\* "[red]Error: Panorama IP is required.[/red]"
IpRequired == [kind |-> "IpRequired"]

\* "Fetching devices from {pano_ip}..."
FetchingFrom(ip) == [kind |-> "FetchingFrom", pano_ip |-> ip]

\* "[red]API Error: Authentication failed. Please check your username and
\* password.[/red]"
AuthenticationFailed == [kind |-> "AuthenticationFailed"]

\* "[red]API Error: {error_msg}[/red]"
ApiError(error_msg) == [kind |-> "ApiError", error_msg |-> error_msg]

\* "[green]Success! Found {len(options)} connected devices.[/green]"
FoundDevices(n) == [kind |-> "FoundDevices", count |-> n]

\* "[red]Connection Error: Received status 403 Forbidden. Please check your
\* username and password.[/red]"
Forbidden == [kind |-> "Forbidden"]

\* "[red]HTTP Error: {e}[/red]"
HttpError(e) == [kind |-> "HttpError", e |-> e]

\* "[red]Connection Error: {e}[/red]"
ConnectionErrorLine(e) == [kind |-> "ConnectionError", e |-> e]

\* "[red]Error: Please select one device to check for versions.[/red]"
SelectOneDevice == [kind |-> "SelectOneDevice"]

\* "Running Software Version Check on {target_hostname}..."
RunningCheck(hostname) == [kind |-> "RunningCheck", hostname |-> hostname]

\* "[yellow]Warning: No software versions found.[/yellow]"
NoVersionsFound == [kind |-> "NoVersionsFound"]

\* "[green]Success! Found {len(versions)} versions. Dropdown populated.[/green]"
FoundVersions(n) == [kind |-> "FoundVersions", count |-> n]


----------------------------------------------------------------------------
(* run_execute_command, lines 283-300: what one device's reply leads to.    *)
(* events: the lines written; job: the job id a tracker is spawned for, or  *)
(* None; uncaught: the exception that leaves the coroutine, or None (the    *)
(* except clause catches RequestException only).                            *)

\* ExecuteReply without the generates_job test of line 287: every reply is
\* searched for a job id
ExecuteReplyAnyCommand(command_name, hostname, reply) ==
    LET e == RequestException(reply)
    IN  IF e.exc # None
        THEN [events |-> <<ErrorFor(hostname, e)>>, job |-> None, uncaught |-> None]
        ELSE IF ~WellFormed(reply.text)
        THEN [events |-> <<>>, job |-> None, uncaught |-> "ParseError"]
        ELSE LET job_id_node == Find(reply.text.root, <<"result", "job">>)
             IN  IF job_id_node # NoNode /\ Truthy(job_id_node.text)
                 THEN [events |-> <<JobEnqueued(job_id_node.text, hostname)>>,
                       job |-> job_id_node.text, uncaught |-> None]
                 ELSE [events |-> <<Success(reply.status_code)>>, job |-> None,
                       uncaught |-> None]

\* ExecuteReply without the else branch of line 294: a reply without a job
\* id is passed over in silence
ExecuteReplySilentNoJob(command_name, hostname, reply) ==
    LET command_info == URL_CHOICES[command_name]
        e == RequestException(reply)
    IN  IF e.exc # None
        THEN [events |-> <<ErrorFor(hostname, e)>>, job |-> None, uncaught |-> None]
        ELSE IF GeneratesJob(command_info)
        THEN IF ~WellFormed(reply.text)
             THEN [events |-> <<>>, job |-> None, uncaught |-> "ParseError"]
             ELSE LET job_id_node == Find(reply.text.root, <<"result", "job">>)
                  IN  IF job_id_node # NoNode /\ Truthy(job_id_node.text)
                      THEN [events |-> <<JobEnqueued(job_id_node.text, hostname)>>,
                            job |-> job_id_node.text, uncaught |-> None]
                      ELSE [events |-> <<>>, job |-> None, uncaught |-> None]
        ELSE [events |-> <<Success(reply.status_code)>>, job |-> None,
              uncaught |-> None]

\* ExecuteReply without the except clause of line 299: a request that fails
\* leaves the coroutine
ExecuteReplyNoExcept(command_name, hostname, reply) ==
    LET command_info == URL_CHOICES[command_name]
        e == RequestException(reply)
    IN  IF e.exc # None
        THEN [events |-> <<>>, job |-> None, uncaught |-> e.exc]
        ELSE IF GeneratesJob(command_info)
        THEN IF ~WellFormed(reply.text)
             THEN [events |-> <<>>, job |-> None, uncaught |-> "ParseError"]
             ELSE LET job_id_node == Find(reply.text.root, <<"result", "job">>)
                  IN  IF job_id_node # NoNode /\ Truthy(job_id_node.text)
                      THEN [events |-> <<JobEnqueued(job_id_node.text, hostname)>>,
                            job |-> job_id_node.text, uncaught |-> None]
                      ELSE [events |-> <<NoJobId(command_name, hostname)>>,
                            job |-> None, uncaught |-> None]
        ELSE [events |-> <<Success(reply.status_code)>>, job |-> None,
              uncaught |-> None]

\* ExecuteReply without the log.write of line 292: the tracker is spawned
\* but the "Job enqueued" line is not written
ExecuteReplyNoEnqueuedLine(command_name, hostname, reply) ==
    LET command_info == URL_CHOICES[command_name]
        e == RequestException(reply)
    IN  IF e.exc # None
        THEN [events |-> <<ErrorFor(hostname, e)>>, job |-> None, uncaught |-> None]
        ELSE IF GeneratesJob(command_info)
        THEN IF ~WellFormed(reply.text)
             THEN [events |-> <<>>, job |-> None, uncaught |-> "ParseError"]
             ELSE LET job_id_node == Find(reply.text.root, <<"result", "job">>)
                  IN  IF job_id_node # NoNode /\ Truthy(job_id_node.text)
                      THEN [events |-> <<>>, job |-> job_id_node.text,
                            uncaught |-> None]
                      ELSE [events |-> <<NoJobId(command_name, hostname)>>,
                            job |-> None, uncaught |-> None]
        ELSE [events |-> <<Success(reply.status_code)>>, job |-> None,
              uncaught |-> None]

ExecuteReply(command_name, hostname, reply) ==
    LET command_info == URL_CHOICES[command_name]
        e == RequestException(reply)
    IN  IF e.exc # None
        THEN [events |-> <<ErrorFor(hostname, e)>>, job |-> None, uncaught |-> None]
        ELSE IF GeneratesJob(command_info)
        THEN IF ~WellFormed(reply.text)
             THEN [events |-> <<>>, job |-> None, uncaught |-> "ParseError"]
             ELSE LET job_id_node == Find(reply.text.root, <<"result", "job">>)
                  IN  IF job_id_node # NoNode /\ Truthy(job_id_node.text)
                      THEN [events |-> <<JobEnqueued(job_id_node.text, hostname)>>,
                            job |-> job_id_node.text, uncaught |-> None]
                      ELSE [events |-> <<NoJobId(command_name, hostname)>>,
                            job |-> None, uncaught |-> None]
        ELSE [events |-> <<Success(reply.status_code)>>, job |-> None,
              uncaught |-> None]

(* track_job_progress, lines 231-259: what one poll's reply leads to.       *)
(* stop: the loop is left by break; uncaught: as above.                     *)

Texts(nodes) == [i \in DOMAIN nodes |-> nodes[i].text]

\* PollReply with a break after the "ACT" branch of lines 250-253: the loop
\* ends on an active job
PollReplyActBreaks(job_id, hostname, reply) ==
    LET e == RequestException(reply)
        Go(events) == [events |-> events, stop |-> FALSE, uncaught |-> None]
        Break(events) == [events |-> events, stop |-> TRUE, uncaught |-> None]
        Raise(x) == [events |-> <<>>, stop |-> TRUE, uncaught |-> x]
    IN  IF e.exc # None THEN Break(<<ErrorChecking(job_id, hostname, e)>>)
        ELSE IF ~WellFormed(reply.text) THEN Raise("ParseError")
        ELSE
        LET root == reply.text.root
            status_node == Find(root, <<"result", "job", "status">>)
            status == status_node.text
            result_node == Find(root, <<"result", "job", "result">>)
            lines == Texts(FindAll(root, <<"result", "job", "details", "line">>))
            progress_node == Find(root, <<"result", "job", "progress">>)
        IN  IF status_node = NoNode
            THEN Break(<<CouldNotDetermine(job_id, hostname)>>)
            ELSE IF status = "FIN"
            THEN IF result_node = NoNode THEN Raise("AttributeError")
                 ELSE IF result_node.text = "OK"
                 THEN Break(<<FinishedOk(job_id, hostname)>>)
                 ELSE IF \E i \in DOMAIN lines : lines[i] = None
                 THEN Raise("TypeError")
                 ELSE Break(<<FinishedFailure(job_id, hostname, lines)>>)
            ELSE IF status = "ACT"
            THEN IF progress_node # NoNode /\ Truthy(progress_node.text)
                 THEN Break(<<Progress(job_id, hostname, progress_node.text)>>)
                 ELSE Break(<<>>)
            ELSE Go(<<Ongoing(job_id, hostname, status)>>)

\* PollReply without the break of line 259: the loop goes on after a failed
\* query
PollReplyRetries(job_id, hostname, reply) ==
    LET e == RequestException(reply)
        Go(events) == [events |-> events, stop |-> FALSE, uncaught |-> None]
        Break(events) == [events |-> events, stop |-> TRUE, uncaught |-> None]
        Raise(x) == [events |-> <<>>, stop |-> TRUE, uncaught |-> x]
    IN  IF e.exc # None THEN Go(<<ErrorChecking(job_id, hostname, e)>>)
        ELSE IF ~WellFormed(reply.text) THEN Raise("ParseError")
        ELSE
        LET root == reply.text.root
            status_node == Find(root, <<"result", "job", "status">>)
            status == status_node.text
            result_node == Find(root, <<"result", "job", "result">>)
            lines == Texts(FindAll(root, <<"result", "job", "details", "line">>))
            progress_node == Find(root, <<"result", "job", "progress">>)
        IN  IF status_node = NoNode
            THEN Break(<<CouldNotDetermine(job_id, hostname)>>)
            ELSE IF status = "FIN"
            THEN IF result_node = NoNode THEN Raise("AttributeError")
                 ELSE IF result_node.text = "OK"
                 THEN Break(<<FinishedOk(job_id, hostname)>>)
                 ELSE IF \E i \in DOMAIN lines : lines[i] = None
                 THEN Raise("TypeError")
                 ELSE Break(<<FinishedFailure(job_id, hostname, lines)>>)
            ELSE IF status = "ACT"
            THEN IF progress_node # NoNode /\ Truthy(progress_node.text)
                 THEN Go(<<Progress(job_id, hostname, progress_node.text)>>)
                 ELSE Go(<<>>)
            ELSE Go(<<Ongoing(job_id, hostname, status)>>)

\* PollReply without the break of line 249 on a finished job: the loop goes
\* on after the success line
PollReplyFinGoesOn(job_id, hostname, reply) ==
    LET e == RequestException(reply)
        Go(events) == [events |-> events, stop |-> FALSE, uncaught |-> None]
        Break(events) == [events |-> events, stop |-> TRUE, uncaught |-> None]
        Raise(x) == [events |-> <<>>, stop |-> TRUE, uncaught |-> x]
    IN  IF e.exc # None THEN Break(<<ErrorChecking(job_id, hostname, e)>>)
        ELSE IF ~WellFormed(reply.text) THEN Raise("ParseError")
        ELSE
        LET root == reply.text.root
            status_node == Find(root, <<"result", "job", "status">>)
            status == status_node.text
            result_node == Find(root, <<"result", "job", "result">>)
            lines == Texts(FindAll(root, <<"result", "job", "details", "line">>))
            progress_node == Find(root, <<"result", "job", "progress">>)
        IN  IF status_node = NoNode
            THEN Break(<<CouldNotDetermine(job_id, hostname)>>)
            ELSE IF status = "FIN"
            THEN IF result_node = NoNode THEN Raise("AttributeError")
                 ELSE IF result_node.text = "OK"
                 THEN Go(<<FinishedOk(job_id, hostname)>>)
                 ELSE IF \E i \in DOMAIN lines : lines[i] = None
                 THEN Raise("TypeError")
                 ELSE Break(<<FinishedFailure(job_id, hostname, lines)>>)
            ELSE IF status = "ACT"
            THEN IF progress_node # NoNode /\ Truthy(progress_node.text)
                 THEN Go(<<Progress(job_id, hostname, progress_node.text)>>)
                 ELSE Go(<<>>)
            ELSE Go(<<Ongoing(job_id, hostname, status)>>)

PollReply(job_id, hostname, reply) ==
    LET e == RequestException(reply)
        Go(events) == [events |-> events, stop |-> FALSE, uncaught |-> None]
        Break(events) == [events |-> events, stop |-> TRUE, uncaught |-> None]
        Raise(x) == [events |-> <<>>, stop |-> TRUE, uncaught |-> x]
    IN  IF e.exc # None THEN Break(<<ErrorChecking(job_id, hostname, e)>>)
        ELSE IF ~WellFormed(reply.text) THEN Raise("ParseError")
        ELSE
        LET root == reply.text.root
            status_node == Find(root, <<"result", "job", "status">>)
            status == status_node.text
            result_node == Find(root, <<"result", "job", "result">>)
            lines == Texts(FindAll(root, <<"result", "job", "details", "line">>))
            progress_node == Find(root, <<"result", "job", "progress">>)
        IN  IF status_node = NoNode
            THEN Break(<<CouldNotDetermine(job_id, hostname)>>)
            ELSE IF status = "FIN"
            THEN IF result_node = NoNode THEN Raise("AttributeError")
                 ELSE IF result_node.text = "OK"
                 THEN Break(<<FinishedOk(job_id, hostname)>>)
                 ELSE IF \E i \in DOMAIN lines : lines[i] = None
                 THEN Raise("TypeError")
                 ELSE Break(<<FinishedFailure(job_id, hostname, lines)>>)
            ELSE IF status = "ACT"
            THEN IF progress_node # NoNode /\ Truthy(progress_node.text)
                 THEN Go(<<Progress(job_id, hostname, progress_node.text)>>)
                 ELSE Go(<<>>)
            ELSE Go(<<Ongoing(job_id, hostname, status)>>)

----------------------------------------------------------------------------
(* fetch_devices, lines 144-178: what the reply leads to.  events: the      *)
(* lines written; table: the entries recorded in serial_to_hostname, in     *)
(* document order; options: the list handed to add_options, empty if that   *)
(* line is not reached; uncaught: as above.                                 *)

\* the entries kept by lines 159-165, as <<hostname, serial>> pairs
KeptEntries(root) ==
    LET entries == FindAll(root, <<"result", "devices", "entry">>)
        kept == SelectSeq(entries, LAMBDA entry :
                    Find(entry, <<"hostname">>) # NoNode /\ Find(entry, <<"serial">>) # NoNode)
    IN  [i \in DOMAIN kept |->
            <<Find(kept[i], <<"hostname">>).text, Find(kept[i], <<"serial">>).text>>]

\* FetchReply without the sort of line 167: the list is shown in the order
\* of the manager's reply
FetchReplyUnsorted(reply) ==
    LET e == RequestException(reply)
        Return(events) == [events |-> events, table |-> <<>>, options |-> <<>>,
                           uncaught |-> None]
        Raise(x) == [events |-> <<>>, table |-> <<>>, options |-> <<>>, uncaught |-> x]
    IN  IF e.exc = "HTTPError"
        THEN IF e.status_code = 403 THEN Return(<<Forbidden>>)
             ELSE Return(<<HttpError(e)>>)
        ELSE IF e.exc # None THEN Return(<<ConnectionErrorLine(e)>>)
        ELSE IF ~WellFormed(reply.text) THEN Raise("ParseError")
        ELSE
        LET root == reply.text.root
            msg_node == FindDeep(root, "msg")
            error_msg == IF msg_node # NoNode THEN msg_node.text ELSE "Unknown API error"
            kept == KeptEntries(root)
            unsorted == [i \in DOMAIN kept |-> Selection(kept[i][1], kept[i][2])]
        IN  IF ~HasAttrib(root, "status") THEN Raise("KeyError")
            ELSE IF Attrib(root, "status") = "error"
            THEN IF error_msg = None THEN Raise("AttributeError")
                 ELSE IF Contains(Chars["authentication failed"], Lower(Chars[error_msg]))
                 THEN Return(<<AuthenticationFailed>>)
                 ELSE Return(<<ApiError(error_msg)>>)
            ELSE [events |-> <<FoundDevices(Len(kept))>>, table |-> kept,
                  options |-> unsorted, uncaught |-> None]

FetchReply(reply) ==
    LET e == RequestException(reply)
        Return(events) == [events |-> events, table |-> <<>>, options |-> <<>>,
                           uncaught |-> None]
        Raise(x) == [events |-> <<>>, table |-> <<>>, options |-> <<>>, uncaught |-> x]
    IN  IF e.exc = "HTTPError"
        THEN IF e.status_code = 403 THEN Return(<<Forbidden>>)
             ELSE Return(<<HttpError(e)>>)
        ELSE IF e.exc # None THEN Return(<<ConnectionErrorLine(e)>>)
        ELSE IF ~WellFormed(reply.text) THEN Raise("ParseError")
        ELSE
        LET root == reply.text.root
            msg_node == FindDeep(root, "msg")
            error_msg == IF msg_node # NoNode THEN msg_node.text ELSE "Unknown API error"
            kept == KeptEntries(root)
            unsorted == [i \in DOMAIN kept |-> Selection(kept[i][1], kept[i][2])]
        IN  IF ~HasAttrib(root, "status") THEN Raise("KeyError")
            ELSE IF Attrib(root, "status") = "error"
            THEN IF error_msg = None THEN Raise("AttributeError")
                 ELSE IF Contains(Chars["authentication failed"], Lower(Chars[error_msg]))
                 THEN Return(<<AuthenticationFailed>>)
                 ELSE Return(<<ApiError(error_msg)>>)
            ELSE [events |-> <<FoundDevices(Len(kept))>>, table |-> kept,
                  options |-> SortByPrompt(unsorted), uncaught |-> None]

\* the dict after the assignments of line 164, in order
RECURSIVE Recorded(_, _)
Recorded(table, dict) ==
    IF table = <<>> THEN dict
    ELSE Recorded(Tail(table), (Head(table)[2] :> Head(table)[1]) @@
                               [s \in DOMAIN dict \ {Head(table)[2]} |-> dict[s]])

(* run_version_check, lines 198-218: what the reply leads to.  versions:    *)
(* the list handed to set_options, empty if that line is not reached.       *)
CheckReply(reply) ==
    LET e == RequestException(reply)
        Return(events) == [events |-> events, versions |-> <<>>, uncaught |-> None]
        Raise(x) == [events |-> <<>>, versions |-> <<>>, uncaught |-> x]
    IN  IF e.exc # None THEN Return(<<ConnectionErrorLine(e)>>)
        ELSE IF ~WellFormed(reply.text) THEN Raise("ParseError")
        ELSE
        LET root == reply.text.root
            msg_node == FindDeep(root, "msg")
            versions == Texts(FindAll(root, <<"result", "sw-updates", "versions",
                                              "entry", "version">>))
        IN  IF ~HasAttrib(root, "status") THEN Raise("KeyError")
            ELSE IF Attrib(root, "status") = "error"
            THEN IF msg_node = NoNode THEN Raise("AttributeError")
                 ELSE Return(<<ApiError(msg_node.text)>>)
            ELSE IF versions = <<>> THEN Return(<<NoVersionsFound>>)
            ELSE [events |-> <<FoundVersions(Len(versions))>>, versions |-> versions,
                  uncaught |-> None]

----------------------------------------------------------------------------
(* State changes shared by the actions. *)

Who(role, id, idx) == [role |-> role, id |-> id, idx |-> idx]

\* `events` written by `who`
Write(events, who) ==
    /\ log' = log \o events
    /\ writer' = writer \o [i \in DOMAIN events |-> who]

\* the request run_api_request sends: GET https://{pano_ip}/api/ with params
\* and auth
Request(from, ip, cmd, target, auth) ==
    [from |-> from, pano_ip |-> ip, type |-> "op", cmd |-> cmd, target |-> target,
     auth |-> auth]

InFlight(from) == {r \in network : r.from = from}

\* the command sent to one device, line 278
CommandXml(command_name, version) ==
    IF Truthy(version) THEN Format(URL_CHOICES[command_name].cmd, version)
    ELSE URL_CHOICES[command_name].cmd

\* lines 275-284 for one device of worker w: the line written and the
\* request issued
RunningLine(command_name, serial) == Running(command_name, HostnameOf(serial))

DeviceRequest(w, command_name, version, serial, ip, auth) ==
    Request(Who("exec", w, 0), ip, CommandXml(command_name, version), serial, auth)

----------------------------------------------------------------------------
(* The fleet and the operator's inputs. *)

\* serial -> hostname of the connected devices, as fetch_devices records it
Fleet == ("0011" :> "fw-a") @@ ("0022" :> "fw-b")

NoDevices == [s \in {} |-> None]

Versions == {"10.2.3"}

\* the orders in which the operator can have selected devices of the list
Selections(serials) ==
    {<<>>} \cup {<<a>> : a \in serials}
           \cup {p \in serials \X serials : p[1] # p[2]}

\* the device list as fetch_devices shows a fleet
Listed(fleet) ==
    LET RECURSIVE Each(_)
        Each(serials) ==
            IF serials = {} THEN <<>>
            ELSE LET s == CHOOSE x \in serials : TRUE
                 IN  <<Selection(fleet[s], s)>> \o Each(serials \ {s})
    IN  SortByPrompt(Each(DOMAIN fleet))

\* the script has not been started
NotRun == [pc |-> "not run"]

\* the buttons that run a command on the selected devices
CommandOfButton ==
    ("run_download" :> "Download Version") @@ ("run_install" :> "Install Version")
      @@ ("run_reboot" :> "Reboot")

----------------------------------------------------------------------------
(* Initial states: the app as constructed (no devices known, nothing        *)
(* selected), or after a device fetch and a version check have filled the   *)
(* device list and the version dropdown; the operator has typed any         *)
(* credentials.  log holds the lines written from here on.                  *)

Init ==
    /\ username \in {"", "admin"}
    /\ password \in {"", "secret"}
    /\ pano_ip = "panorama.example"
    /\ \/ /\ serial_to_hostname = NoDevices
          /\ options = <<>>
          /\ selected = <<>>
          /\ version_value = BLANK
       \/ /\ serial_to_hostname = Fleet
          /\ options = Listed(Fleet)
          /\ selected \in Selections(DOMAIN Fleet)
          /\ version_value \in Versions \cup {BLANK}
    /\ version_options = IF version_value = BLANK THEN <<>> ELSE <<version_value>>
    /\ fetchers = <<>>
    /\ checkers = <<>>
    /\ script = NotRun
    /\ log = <<>>
    /\ writer = <<>>
    /\ workers = <<>>
    /\ trackers = <<>>
    /\ network = {}
    /\ presses = 0
    /\ sent = 0

----------------------------------------------------------------------------
(* The workers.  A run_execute_command worker: its arguments (auth,         *)
(* command_name, version), its locals (selected_serials, pano_ip, idx: the   *)
(* position of the loop in selected_serials) and pc: "start" (spawned, not   *)
(* yet run), "await" (in asyncio.to_thread), "done" (returned), "crashed"    *)
(* (left by the exception `uncaught`).  A track_job_progress worker: its     *)
(* arguments (auth, serial, job_id), its local hostname and pc, with "sleep" *)
(* for asyncio.sleep.  History kept for the properties: asked (the requests  *)
(* issued), got (the replies received), by (the loop iteration that spawned  *)
(* the tracker).                                                             *)

(* handle_button_press, lines 302-335.  A coroutine handed to run_worker    *)
(* runs to its first await before the app handles the next input of the     *)
(* operator, so no press or edit falls between a spawn and that start.      *)

NewWorker(auth, command_name, version) ==
    [auth |-> auth, command_name |-> command_name, version |-> version,
     pc |-> "start", selected_serials |-> <<>>, pano_ip |-> None, idx |-> 0,
     asked |-> <<>>, got |-> <<>>, uncaught |-> None]

\* a fetch_devices worker: its argument auth, its local pano_ip, its pc
NewFetcher(auth) ==
    [auth |-> auth, pc |-> "start", pano_ip |-> None, got |-> <<>>,
     options |-> <<>>, uncaught |-> None]

\* a run_version_check worker: its argument auth, its local target_serial
NewChecker(auth) ==
    [auth |-> auth, pc |-> "start", target_serial |-> None, pano_ip |-> None,
     got |-> <<>>, uncaught |-> None]

Buttons == {"fetch", "run_check_versions"} \cup DOMAIN CommandOfButton

NoneStarting ==
    /\ \A w \in DOMAIN workers : workers[w].pc # "start"
    /\ \A t \in DOMAIN trackers : trackers[t].pc # "start"
    /\ \A f \in DOMAIN fetchers : fetchers[f].pc # "start"
    /\ \A c \in DOMAIN checkers : checkers[c].pc # "start"

\* HandleButtonPress without the test of line 330: a download or install is
\* spawned whatever the dropdown holds
HandleButtonPressAnyVersion(button) ==
    /\ NoneStarting
    /\ presses + sent < MaxInputs
    /\ presses' = presses + 1
    /\ LET who == Who("press", presses + 1, 0)
           auth == <<username, password>>
           command_name == CommandOfButton[button]
           generates_job == GeneratesJob(URL_CHOICES[command_name])
           version == IF generates_job THEN version_value ELSE None
       IN  IF (~Truthy(username) \/ ~Truthy(password))
               /\ ~(button # "fetch" /\ DOMAIN serial_to_hostname = {})
           THEN Write(<<CredentialsRequired>>, who)
                  /\ UNCHANGED <<workers, fetchers, checkers>>
           ELSE IF button = "fetch"
           THEN /\ fetchers' = Append(fetchers, NewFetcher(auth))
                /\ UNCHANGED <<log, writer, workers, checkers>>
           ELSE IF button = "run_check_versions"
           THEN /\ checkers' = Append(checkers, NewChecker(auth))
                /\ UNCHANGED <<log, writer, workers, fetchers>>
           ELSE /\ workers' = Append(workers, NewWorker(auth, command_name, version))
                /\ UNCHANGED <<log, writer, fetchers, checkers>>
    /\ UNCHANGED <<username, password, pano_ip, version_value, selected, options,
                   version_options, script, serial_to_hostname, trackers, network, sent>>

\* HandleButtonPress without the "not self.serial_to_hostname" of line 309:
\* every press but a fetch is let through without credentials
HandleButtonPressNoTableTest(button) ==
    /\ NoneStarting
    /\ presses + sent < MaxInputs
    /\ presses' = presses + 1
    /\ LET who == Who("press", presses + 1, 0)
           auth == <<username, password>>
           command_name == CommandOfButton[button]
           generates_job == GeneratesJob(URL_CHOICES[command_name])
           version == IF generates_job THEN version_value ELSE None
       IN  IF (~Truthy(username) \/ ~Truthy(password))
               /\ ~(button # "fetch")
           THEN Write(<<CredentialsRequired>>, who)
                  /\ UNCHANGED <<workers, fetchers, checkers>>
           ELSE IF button = "fetch"
           THEN /\ fetchers' = Append(fetchers, NewFetcher(auth))
                /\ UNCHANGED <<log, writer, workers, checkers>>
           ELSE IF button = "run_check_versions"
           THEN /\ checkers' = Append(checkers, NewChecker(auth))
                /\ UNCHANGED <<log, writer, workers, fetchers>>
           ELSE IF generates_job /\ version = BLANK
           THEN Write(<<SelectVersionFirst>>, who)
                  /\ UNCHANGED <<workers, fetchers, checkers>>
           ELSE /\ workers' = Append(workers, NewWorker(auth, command_name, version))
                /\ UNCHANGED <<log, writer, fetchers, checkers>>
    /\ UNCHANGED <<username, password, pano_ip, version_value, selected, options,
                   version_options, script, serial_to_hostname, trackers, network, sent>>

HandleButtonPress(button) ==
    /\ NoneStarting
    /\ presses + sent < MaxInputs
    /\ presses' = presses + 1
    /\ LET who == Who("press", presses + 1, 0)
           auth == <<username, password>>
           command_name == CommandOfButton[button]
           generates_job == GeneratesJob(URL_CHOICES[command_name])
           version == IF generates_job THEN version_value ELSE None
       IN  IF (~Truthy(username) \/ ~Truthy(password))
               /\ ~(button # "fetch" /\ DOMAIN serial_to_hostname = {})
           THEN Write(<<CredentialsRequired>>, who)
                  /\ UNCHANGED <<workers, fetchers, checkers>>
           ELSE IF button = "fetch"
           THEN /\ fetchers' = Append(fetchers, NewFetcher(auth))
                /\ UNCHANGED <<log, writer, workers, checkers>>
           ELSE IF button = "run_check_versions"
           THEN /\ checkers' = Append(checkers, NewChecker(auth))
                /\ UNCHANGED <<log, writer, workers, fetchers>>
           ELSE IF generates_job /\ version = BLANK
           THEN Write(<<SelectVersionFirst>>, who)
                  /\ UNCHANGED <<workers, fetchers, checkers>>
           ELSE /\ workers' = Append(workers, NewWorker(auth, command_name, version))
                /\ UNCHANGED <<log, writer, fetchers, checkers>>
    /\ UNCHANGED <<username, password, pano_ip, version_value, selected, options,
                   version_options, script, serial_to_hostname, trackers, network, sent>>

(* The operator's edits of the widgets: the Input fields, the SelectionList *)
(* and the Select (enabled once run_version_check has filled it, line 214). *)

Usernames == {"", "admin"}

Passwords == {"", "secret"}

\* the addresses the operator types into #pano_ip: two managers
PanoIps == {"panorama.example", "standby.example"}

Edit ==
    /\ NoneStarting
    /\ presses + sent < MaxInputs
    /\ presses' = presses + 1
    /\ UNCHANGED <<options, version_options, serial_to_hostname, log, writer,
                   workers, trackers, fetchers, checkers, script, network, sent>>

EditPanoIp(value) ==
    /\ value # pano_ip
    /\ pano_ip' = value
    /\ Edit
    /\ UNCHANGED <<username, password, selected, version_value>>

EditUsername(value) ==
    /\ value # username
    /\ username' = value
    /\ Edit
    /\ UNCHANGED <<pano_ip, password, selected, version_value>>

EditPassword(value) ==
    /\ value # password
    /\ password' = value
    /\ Edit
    /\ UNCHANGED <<pano_ip, username, selected, version_value>>

SelectDevices(serials) ==
    /\ serials # selected
    /\ selected' = serials
    /\ Edit
    /\ UNCHANGED <<pano_ip, username, password, version_value>>

SelectVersion(value) ==
    /\ version_options # <<>>
    /\ value # version_value
    /\ version_value' = value
    /\ Edit
    /\ UNCHANGED <<pano_ip, username, password, selected>>

----------------------------------------------------------------------------
(* run_execute_command, lines 261-300. *)

\* ExecStart issuing the requests of all selected devices before it awaits
\* any reply (a gather over the devices instead of the sequential loop)
ExecStartGather(w) ==
    /\ workers[w].pc = "start"
    /\ selected # <<>>
    /\ presses + sent + Len(selected) <= MaxInputs
    /\ log' = log \o <<Starting(workers[w].command_name, Len(selected))>>
                  \o [i \in DOMAIN selected |->
                        RunningLine(workers[w].command_name, selected[i])]
    /\ writer' = writer \o <<Who("exec", w, 0)>>
                        \o [i \in DOMAIN selected |-> Who("exec", w, i)]
    /\ workers' = [workers EXCEPT ![w].pc = "await",
                                  ![w].selected_serials = selected,
                                  ![w].pano_ip = pano_ip,
                                  ![w].idx = 1,
                                  ![w].asked = selected]
    /\ network' = network \cup
         {DeviceRequest(w, workers[w].command_name, workers[w].version,
                        selected[i], pano_ip, workers[w].auth) : i \in DOMAIN selected}
    /\ sent' = sent + Len(selected)
    /\ UNCHANGED <<username, password, pano_ip, version_value, selected, options,
                   version_options, fetchers, checkers, script,
                   serial_to_hostname, trackers, presses>>

\* lines 262-284: from the start of the coroutine to its first await
ExecStart(w) ==
    /\ workers[w].pc = "start"
    /\ IF selected = <<>>
       THEN /\ Write(<<NoDevicesSelected>>, Who("exec", w, 0))
            /\ workers' = [workers EXCEPT ![w].pc = "done"]
            /\ UNCHANGED <<network, sent>>
       ELSE /\ presses + sent < MaxInputs
            /\ log' = log \o <<Starting(workers[w].command_name, Len(selected)),
                               RunningLine(workers[w].command_name, selected[1])>>
            /\ writer' = writer \o <<Who("exec", w, 0), Who("exec", w, 1)>>
            /\ workers' = [workers EXCEPT ![w].pc = "await",
                                          ![w].selected_serials = selected,
                                          ![w].pano_ip = pano_ip,
                                          ![w].idx = 1,
                                          ![w].asked = <<selected[1]>>]
            /\ network' = network \cup
                 {DeviceRequest(w, workers[w].command_name, workers[w].version,
                                selected[1], pano_ip, workers[w].auth)}
            /\ sent' = sent + 1
    /\ UNCHANGED <<username, password, pano_ip, version_value, selected, options,
                   version_options, fetchers, checkers, script,
                   serial_to_hostname, trackers, presses>>

NewTracker(by, auth, serial, job_id) ==
    [by |-> by, auth |-> auth, serial |-> serial, job_id |-> job_id,
     pc |-> "start", hostname |-> None, asked |-> 0, got |-> <<>>,
     uncaught |-> None]

\* lines 284-300 for the device awaited, then lines 274-284 for the next one
\* (up to its await) or the end of the loop
ExecResponse(w, reply) ==
    LET me == workers[w]
        i == me.idx
        serial == me.selected_serials[i]
        out == ExecuteReply(me.command_name, HostnameOf(serial), reply)
        more == out.uncaught = None /\ i < Len(me.selected_serials)
        next == me.selected_serials[i + 1]
    IN  /\ me.pc = "await"
        /\ InFlight(Who("exec", w, 0)) # {}
        /\ more => presses + sent < MaxInputs
        /\ log' = log \o out.events
                      \o (IF more THEN <<RunningLine(me.command_name, next)>> ELSE <<>>)
        /\ writer' = writer \o [k \in DOMAIN out.events |-> Who("exec", w, i)]
                            \o (IF more THEN <<Who("exec", w, i + 1)>> ELSE <<>>)
        /\ trackers' = IF out.job # None
                       THEN Append(trackers, NewTracker(Who("exec", w, i), me.auth, serial, out.job))
                       ELSE trackers
        /\ network' = (network \ InFlight(Who("exec", w, 0))) \cup
                        (IF more
                         THEN {DeviceRequest(w, me.command_name, me.version, next,
                                             me.pano_ip, me.auth)}
                         ELSE {})
        /\ sent' = IF more THEN sent + 1 ELSE sent
        /\ workers' = [workers EXCEPT
                         ![w].got = Append(@, reply),
                         ![w].asked = IF more THEN Append(@, next) ELSE @,
                         ![w].uncaught = out.uncaught,
                         ![w].idx = IF more THEN i + 1 ELSE i,
                         ![w].pc = IF out.uncaught # None THEN "crashed"
                                   ELSE IF more THEN "await" ELSE "done"]
        /\ UNCHANGED <<username, password, pano_ip, version_value, selected, options,
                   version_options, fetchers, checkers, script,
                       serial_to_hostname, presses>>

----------------------------------------------------------------------------
(* track_job_progress, lines 220-259. *)

\* lines 221-225: the hostname is looked up once, then the first sleep begins
TrackerStart(t) ==
    /\ trackers[t].pc = "start"
    /\ trackers' = [trackers EXCEPT ![t].pc = "sleep",
                                    ![t].hostname = HostnameOf(trackers[t].serial)]
    /\ UNCHANGED <<username, password, pano_ip, version_value, selected, options,
                   version_options, fetchers, checkers, script,
                   serial_to_hostname, log, writer, workers, network, presses, sent>>

\* the command of a job status query, line 229
ShowJob(job_id) == <<"<show><jobs><id>", job_id, "</id></jobs></show>">>

\* TrackerPoll issuing its query without waiting for the reply of the
\* previous one
TrackerPollOverlapping(t) ==
    /\ trackers[t].pc \in {"sleep", "await"}
    /\ presses + sent < MaxInputs
    /\ sent' = sent + 1
    /\ network' = network \cup
         {Request(Who("tracker", t, 0), pano_ip,
                  <<"<show><jobs><id>", trackers[t].job_id, "</id></jobs></show>">>,
                  trackers[t].serial, trackers[t].auth)}
    /\ trackers' = [trackers EXCEPT ![t].pc = "await", ![t].asked = @ + 1]
    /\ UNCHANGED <<username, password, pano_ip, version_value, selected, options,
                   version_options, fetchers, checkers, script,
                   serial_to_hostname, log, writer, workers, presses>>

\* lines 225-232: the sleep is over, the status query is issued
TrackerPoll(t) ==
    /\ trackers[t].pc = "sleep"
    /\ presses + sent < MaxInputs
    /\ sent' = sent + 1
    /\ network' = network \cup
         {Request(Who("tracker", t, 0), pano_ip, ShowJob(trackers[t].job_id),
                  trackers[t].serial, trackers[t].auth)}
    /\ trackers' = [trackers EXCEPT ![t].pc = "await", ![t].asked = @ + 1]
    /\ UNCHANGED <<username, password, pano_ip, version_value, selected, options,
                   version_options, fetchers, checkers, script,
                   serial_to_hostname, log, writer, workers, presses>>

\* lines 232-259: the reply is classified; the loop sleeps again or ends
TrackerResponse(t, reply) ==
    LET me == trackers[t]
        out == PollReply(me.job_id, me.hostname, reply)
    IN  /\ me.pc = "await"
        /\ InFlight(Who("tracker", t, 0)) # {}
        /\ Write(out.events, Who("tracker", t, Len(me.got) + 1))
        /\ network' = network \ InFlight(Who("tracker", t, 0))
        /\ trackers' = [trackers EXCEPT
                          ![t].got = Append(@, reply),
                          ![t].uncaught = out.uncaught,
                          ![t].pc = IF out.uncaught # None THEN "crashed"
                                    ELSE IF out.stop THEN "done" ELSE "sleep"]
        /\ UNCHANGED <<username, password, pano_ip, version_value, selected, options,
                   version_options, fetchers, checkers, script,
                       serial_to_hostname, workers, presses, sent>>

----------------------------------------------------------------------------

----------------------------------------------------------------------------
(* fetch_devices, lines 129-178. *)

\* "<show><devices><connected></connected></devices></show>"
ShowDevices == <<"<show><devices><connected></connected></devices></show>">>

\* lines 130-144: the list and the table are cleared, the request is issued
FetchStart(f) ==
    /\ fetchers[f].pc = "start"
    /\ options' = <<>>
    /\ selected' = <<>>
    /\ serial_to_hostname' = NoDevices
    /\ IF ~Truthy(pano_ip)
       THEN /\ Write(<<IpRequired>>, Who("fetch", f, 0))
            /\ fetchers' = [fetchers EXCEPT ![f].pc = "done"]
            /\ UNCHANGED <<network, sent>>
       ELSE /\ presses + sent < MaxInputs
            /\ Write(<<FetchingFrom(pano_ip)>>, Who("fetch", f, 0))
            /\ fetchers' = [fetchers EXCEPT ![f].pc = "await", ![f].pano_ip = pano_ip]
            /\ network' = network \cup
                 {Request(Who("fetch", f, 0), pano_ip, ShowDevices, None, fetchers[f].auth)}
            /\ sent' = sent + 1
    /\ UNCHANGED <<username, password, pano_ip, version_value, version_options,
                   workers, trackers, checkers, script, presses>>

\* lines 144-178: the reply is classified, the list and the table are filled
FetchResponse(f, reply) ==
    /\ fetchers[f].pc = "await"
    /\ \E r \in InFlight(Who("fetch", f, 0)) :
        LET out == FetchReply(reply) IN
        /\ network' = network \ {r}
        /\ Write(out.events, Who("fetch", f, 1))
        /\ fetchers' = [fetchers EXCEPT
                           ![f].pc = IF out.uncaught # None THEN "crashed" ELSE "done",
                           ![f].got = Append(@, reply),
                           ![f].options = out.options,
                           ![f].uncaught = out.uncaught]
        /\ serial_to_hostname' = Recorded(out.table, serial_to_hostname)
        /\ options' = options \o out.options
        /\ UNCHANGED <<username, password, pano_ip, version_value, selected,
                       version_options, workers, trackers, checkers, script,
                       presses, sent>>

----------------------------------------------------------------------------
(* run_version_check, lines 180-218. *)

\* lines 181-198: the first selected device is asked for its releases
CheckStart(c) ==
    /\ checkers[c].pc = "start"
    /\ IF selected = <<>>
       THEN /\ Write(<<SelectOneDevice>>, Who("check", c, 0))
            /\ checkers' = [checkers EXCEPT ![c].pc = "done"]
            /\ UNCHANGED <<network, sent>>
       ELSE /\ presses + sent < MaxInputs
            /\ Write(<<RunningCheck(HostnameOf(selected[1]))>>, Who("check", c, 0))
            /\ checkers' = [checkers EXCEPT ![c].pc = "await",
                                            ![c].target_serial = selected[1],
                                            ![c].pano_ip = pano_ip]
            /\ network' = network \cup
                 {Request(Who("check", c, 0), pano_ip,
                          URL_CHOICES["Software Version Check"].cmd, selected[1],
                          checkers[c].auth)}
            /\ sent' = sent + 1
    /\ UNCHANGED <<username, password, pano_ip, version_value, selected, options,
                   version_options, serial_to_hostname, workers, trackers, fetchers,
                   script, presses>>

\* lines 198-218: the reply is classified, the dropdown is filled
CheckResponse(c, reply) ==
    /\ checkers[c].pc = "await"
    /\ \E r \in InFlight(Who("check", c, 0)) :
        LET out == CheckReply(reply) IN
        /\ network' = network \ {r}
        /\ Write(out.events, Who("check", c, 1))
        /\ checkers' = [checkers EXCEPT
                           ![c].pc = IF out.uncaught # None THEN "crashed" ELSE "done",
                           ![c].got = Append(@, reply),
                           ![c].uncaught = out.uncaught]
        /\ version_options' = IF out.versions = <<>> THEN version_options
                              ELSE out.versions
        /\ version_value' = IF out.versions = <<>> THEN version_value ELSE BLANK
        /\ UNCHANGED <<username, password, pano_ip, selected, options,
                       serial_to_hostname, workers, trackers, fetchers, script,
                       presses, sent>>

----------------------------------------------------------------------------
(* palo_upgrade_script.py: the command-line front end.  It runs from its    *)
(* prompts to its exit without any concurrency, so one action is one run.   *)

\* URL_CHOICES of the script: a template is the sequence of its literal
\* pieces and its replacement fields
SCRIPT_URL_CHOICES ==
    ("1" :> [name |-> "Software Version Check",
             template |-> <<"https://", "{host}",
                            "/api/?type=op&cmd=<request><system><software><check></check></software></system></request>&key=",
                            "{key}">>,
             requires_version |-> FALSE])
 @@ ("2" :> [name |-> "Download Version",
             template |-> <<"https://", "{host}",
                            "/api/?type=op&cmd=<request><system><software><download><version>",
                            "{version}",
                            "</version></download></software></system></request>&key=",
                            "{key}">>,
             requires_version |-> TRUE])
 @@ ("3" :> [name |-> "Install Version",
             template |-> <<"https://", "{host}",
                            "/api/?type=op&cmd=<request><system><software><install><version>",
                            "{version}",
                            "</version></install></software></system></request>&key=",
                            "{key}">>,
             requires_version |-> TRUE])
 @@ ("4" :> [name |-> "Reboot",
             template |-> <<"https://", "{host}",
                            "/api/?type=op&cmd=<request><restart><system></system></restart></request>&key=",
                            "{key}">>,
             requires_version |-> FALSE])

\* the replacement fields of a template and the keyword each one names
Fields == ("{host}" :> "host") @@ ("{key}" :> "key") @@ ("{version}" :> "version")

\* str.format(**format_args): KeyError when a field names no argument
FormatUrl(template, format_args) ==
    IF \E i \in DOMAIN template :
          template[i] \in DOMAIN Fields /\ Fields[template[i]] \notin DOMAIN format_args
    THEN [raises |-> "KeyError"]
    ELSE [url |-> [i \in DOMAIN template |->
                     IF template[i] \in DOMAIN Fields
                     THEN format_args[Fields[template[i]]] ELSE template[i]]]

\* "\nNo hosts entered. Exiting."
CliNoHosts == [kind |-> "CliNoHosts"]

\* "\n--- Starting '{check_name}' on {len(host_list)} server(s) ---"
CliStarting(check_name, n) == [kind |-> "CliStarting", check_name |-> check_name, count |-> n]

\* "--- Running '{check_name}' on {host} ---"
CliRunning(check_name, host) == [kind |-> "CliRunning", check_name |-> check_name, host |-> host]

\* the line printed for the reply of one host, lines 94-106
CliOutcome(host, reply) ==
    IF "raises" \in DOMAIN reply
    THEN IF reply.raises = "ConnectionError" THEN [kind |-> "CliConnectionError", host |-> host]
         ELSE IF reply.raises = "Timeout" THEN [kind |-> "CliTimeout", host |-> host]
         ELSE [kind |-> "CliUnexpected", host |-> host, e |-> reply.raises]
    ELSE IF reply.status_code >= 400
         THEN [kind |-> "CliHttpError", status_code |-> reply.status_code]
         ELSE [kind |-> "CliSuccess", status_code |-> reply.status_code]

\* "-" * 25 + "\n"
CliRule == [kind |-> "CliRule"]

\* get_user_selections, lines 43-59: the version is prompted for only when
\* the chosen command requires one
VersionInputs(choice) ==
    IF SCRIPT_URL_CHOICES[choice].requires_version THEN {"", "10.2.3"} ELSE {None}

\* the loop of lines 84-107 from host i on; replies[i] answers host i
RECURSIVE RunFrom(_, _, _, _, _, _)
RunFrom(i, host_list, selected_check, api_key, version, replies) ==
    IF i > Len(host_list) THEN [prints |-> <<>>, requests |-> <<>>, raised |-> None]
    ELSE LET host == host_list[i]
             format_args == IF Truthy(version)
                            THEN ("host" :> host) @@ ("key" :> api_key) @@ ("version" :> version)
                            ELSE ("host" :> host) @@ ("key" :> api_key)
             url == FormatUrl(selected_check.template, format_args)
             rest == RunFrom(i + 1, host_list, selected_check, api_key, version, replies)
         IN  IF "raises" \in DOMAIN url
             THEN [prints |-> <<>>, requests |-> <<>>, raised |-> url.raises]
             ELSE [prints |-> <<CliRunning(selected_check.name, host),
                                CliOutcome(host, replies[i]), CliRule>> \o rest.prints,
                   requests |-> <<url.url>> \o rest.requests,
                   raised |-> rest.raised]

\* run_commands, lines 74-107
RunCommands(host_list, selected_check, api_key, version, replies) ==
    IF host_list = <<>>
    THEN [prints |-> <<CliNoHosts>>, requests |-> <<>>, raised |-> None]
    ELSE LET run == RunFrom(1, host_list, selected_check, api_key, version, replies)
         IN  [prints |-> <<CliStarting(selected_check.name, Len(host_list))>> \o run.prints,
              requests |-> run.requests,
              raised |-> run.raised]

\* what the operator types at the prompts and what the hosts answer
HostLists == {<<>>, <<"fw-a.example">>, <<"fw-a.example", "fw-b.example">>}

CliReplies ==
    {[raises |-> x] : x \in TransportFailures \cup {"TooManyRedirects"}}
      \cup {[status_code |-> c, text |-> NoJobBody] : c \in {200, 500}}

\* lines 110-114: the whole run of the script
RunScript(api_key, choice, version, hosts, replies) ==
    /\ script = NotRun
    /\ presses + sent + Len(hosts) < MaxInputs
    /\ presses' = presses + 1
    /\ LET ran == RunCommands(hosts, SCRIPT_URL_CHOICES[choice], api_key, version, replies)
       IN  /\ script' = [pc |-> "exited", api_key |-> api_key,
                         check_to_run |-> SCRIPT_URL_CHOICES[choice],
                         version_number |-> version, hosts |-> hosts, ran |-> ran]
           /\ sent' = sent + Len(ran.requests)
    /\ UNCHANGED <<username, password, pano_ip, version_value, selected, options,
                   version_options, serial_to_hostname, log, writer, workers,
                   trackers, fetchers, checkers, network>>

----------------------------------------------------------------------------
Next ==
    \/ \E button \in DOMAIN CommandOfButton : HandleButtonPress(button)
    \/ \E w \in DOMAIN workers : ExecStart(w)
    \/ \E w \in DOMAIN workers, reply \in Replies(DispatchBodies) : ExecResponse(w, reply)
    \/ \E t \in DOMAIN trackers : TrackerStart(t)
    \/ \E t \in DOMAIN trackers : TrackerPoll(t)
    \/ \E t \in DOMAIN trackers, reply \in Replies(PollBodies) : TrackerResponse(t, reply)

Spec == Init /\ [][Next]_vars

\* the two front ends that dispatch commands: the command buttons of the
\* TUI with their workers, and the script
NextCli ==
    \/ \E button \in DOMAIN CommandOfButton : HandleButtonPress(button)
    \/ \E w \in DOMAIN workers : ExecStart(w)
    \/ \E w \in DOMAIN workers, reply \in Replies(DispatchBodies) : ExecResponse(w, reply)
    \/ \E choice \in DOMAIN SCRIPT_URL_CHOICES, hosts \in HostLists :
         \E version \in VersionInputs(choice), replies \in [DOMAIN hosts -> CliReplies] :
            RunScript("LUFRPT1", choice, version, hosts, replies)

SpecCli == Init /\ [][NextCli]_vars

\* the device fetch alone, answered with every device list of EntryLists
FetchReplies ==
    Replies({DevicesBody(entries) : entries \in EntryLists})
      \cup {[status_code |-> 403, text |-> Malformed]}

\* the app as constructed: the fields empty, no device known
Constructed ==
    /\ Init
    /\ username = ""
    /\ password = ""
    /\ serial_to_hostname = NoDevices

NextFetch ==
    \/ \E value \in Usernames : EditUsername(value)
    \/ \E value \in Passwords : EditPassword(value)
    \/ HandleButtonPress("fetch")
    \/ \E f \in DOMAIN fetchers : FetchStart(f)
    \/ \E f \in DOMAIN fetchers, reply \in FetchReplies : FetchResponse(f, reply)

SpecFetch == Constructed /\ [][NextFetch]_vars

\* the whole app: every button, the operator's edits and all four kinds of
\* worker, each answered with a success, an authentication failure reported
\* in an error envelope, or a failure of another kind
OkReply(body) == [status_code |-> 200, text |-> body]

UiFetchReplies ==
    { OkReply(DevicesBody(<<Device("fw-b", "0022"), Device("fw-a", "0011")>>)),
      OkReply(PlainErrorBody("Authentication failed")),
      OkReply(ErrorBody("Invalid target")),
      [raises |-> "ConnectionError"] }

UiCheckReplies ==
    { OkReply(VersionsBody(<<"10.2.3">>)),
      OkReply(PlainErrorBody("AUTHENTICATION FAILED: bad password")),
      OkReply(BareErrorBody) }

UiDispatchReplies ==
    { OkReply(JobBody("42")), OkReply(PlainErrorBody("Authentication failed")) }

UiPollReplies ==
    { OkReply(SnapshotBody(<<Leaf("status", "FIN"), Leaf("result", "OK")>>)),
      OkReply(PlainErrorBody("Authentication failed")) }

NextUi ==
    \/ \E value \in PanoIps : EditPanoIp(value)
    \/ \E value \in Usernames : EditUsername(value)
    \/ \E value \in Passwords : EditPassword(value)
    \/ \E serials \in Selections({options[i].value : i \in DOMAIN options}) :
         SelectDevices(serials)
    \/ \E value \in {version_options[i] : i \in DOMAIN version_options} \cup {BLANK} :
         SelectVersion(value)
    \/ \E button \in Buttons : HandleButtonPress(button)
    \/ \E f \in DOMAIN fetchers : FetchStart(f)
    \/ \E f \in DOMAIN fetchers, reply \in UiFetchReplies : FetchResponse(f, reply)
    \/ \E c \in DOMAIN checkers : CheckStart(c)
    \/ \E c \in DOMAIN checkers, reply \in UiCheckReplies : CheckResponse(c, reply)
    \/ \E w \in DOMAIN workers : ExecStart(w)
    \/ \E w \in DOMAIN workers, reply \in UiDispatchReplies : ExecResponse(w, reply)
    \/ \E t \in DOMAIN trackers : TrackerStart(t)
    \/ \E t \in DOMAIN trackers : TrackerPoll(t)
    \/ \E t \in DOMAIN trackers, reply \in UiPollReplies : TrackerResponse(t, reply)

SpecUi == Init /\ [][NextUi]_vars

----------------------------------------------------------------------------
(* Reading the history. *)

\* the lines `who` wrote, oldest first
LinesBy(who) ==
    LET at == SelectSeq([i \in DOMAIN log |-> i], LAMBDA i : writer[i] = who)
    IN  [k \in DOMAIN at |-> log[at[k]]]

\* the outcome lines of worker w for its k-th device: all it wrote for that
\* device but the "--- Running" banner
OutcomesOf(w, k) ==
    SelectSeq(LinesBy(Who("exec", w, k)), LAMBDA l : l.kind # "Running")

\* the trackers spawned by worker w (for its k-th device)
TrackersOf(w) == {t \in DOMAIN trackers : trackers[t].by.id = w}

TrackersFor(w, k) == {t \in TrackersOf(w) : trackers[t].by.idx = k}

\* a line that names the device: by its hostname, or by its serial when the
\* lookup table has no entry for it
NamesDevice(line, serial) ==
    /\ "hostname" \in DOMAIN line
    /\ line.hostname \in {serial} \cup {Fleet[s] : s \in {serial} \cap DOMAIN Fleet}

JobCommands == {c \in DOMAIN URL_CHOICES : GeneratesJob(URL_CHOICES[c])}

\* the reply is an HTTP success carrying a well-formed body
IsOk(reply) ==
    /\ "status_code" \in DOMAIN reply
    /\ reply.status_code < 400
    /\ reply.text.wellformed

\* the reply failed at the transport layer: no connection, a timeout, or an
\* HTTP error status
IsTransportFailure(reply) ==
    \/ "raises" \in DOMAIN reply
    \/ "status_code" \in DOMAIN reply /\ reply.status_code >= 400

\* the job id a well-formed body carries at ./result/job, or None
JobIdIn(reply) ==
    LET hits == FindAll(reply.text.root, <<"result", "job">>)
    IN  IF hits = <<>> \/ hits[1].text \in {None, ""} THEN None ELSE hits[1].text

\* the value of the root's status attribute
StatusAttr(reply) ==
    LET vals == {a[2] : a \in {b \in reply.text.root.attrib : b[1] = "status"}}
    IN  IF vals = {} THEN None ELSE CHOOSE v \in vals : TRUE

----------------------------------------------------------------------------
(* C1: an operation whose catalog entry does not produce a job never gets a *)
(* tracker: no tracker was spawned by a run_execute_command worker of such  *)
(* a command, whatever the replies it received.                             *)
C1_NonJobNeverSpawns ==
    /\ \A w \in DOMAIN workers :
          workers[w].command_name \notin JobCommands => TrackersOf(w) = {}
    /\ \A c \in DOMAIN URL_CHOICES \ JobCommands :
          \A reply \in Replies(DispatchBodies), s \in DOMAIN Fleet :
              ExecuteReply(c, HostnameOf(s), reply).job = None

\* a finished non-job worker was answered with a body carrying a job id
C1_Witness ==
    \E w \in DOMAIN workers :
        /\ workers[w].command_name \notin JobCommands
        /\ workers[w].pc = "done"
        /\ \E k \in DOMAIN workers[w].got :
              IsOk(workers[w].got[k]) /\ JobIdIn(workers[w].got[k]) = "42"
        /\ TrackersOf(w) = {}

(* C2: for a job-producing command, a successful reply without a job id    *)
(* (no ./result/job node, or an empty one) gives that device exactly one    *)
(* "did not return a job ID" line and no tracker.                           *)
LacksJobId(reply) ==
    IsOk(reply) /\ StatusAttr(reply) = "success" /\ JobIdIn(reply) = None

C2_NoJobReturned ==
    \A w \in DOMAIN workers : \A k \in DOMAIN workers[w].got :
        (workers[w].command_name \in JobCommands /\ LacksJobId(workers[w].got[k]))
        => /\ Len(OutcomesOf(w, k)) = 1
           /\ OutcomesOf(w, k)[1].kind = "NoJobId"
           /\ OutcomesOf(w, k)[1].command_name = workers[w].command_name
           /\ NamesDevice(OutcomesOf(w, k)[1], workers[w].selected_serials[k])
           /\ TrackersFor(w, k) = {}

\* both kinds of reply without a job id were handled by job-producing workers
C2_Witness ==
    /\ \E w \in DOMAIN workers : \E k \in DOMAIN workers[w].got :
          /\ workers[w].command_name \in JobCommands
          /\ workers[w].got[k] = [status_code |-> 200, text |-> NoJobBody]
    /\ \E w \in DOMAIN workers : \E k \in DOMAIN workers[w].got :
          /\ workers[w].command_name \in JobCommands
          /\ workers[w].got[k] = [status_code |-> 200, text |-> JobBody(None)]

(* C3: a device whose call ends in a transport error or whose reply is an   *)
(* error envelope (status="error") gets one failure line that names it and  *)
(* carries the error detail, and no tracker; it never gets a success line.  *)
IsErrorEnvelope(reply) == IsOk(reply) /\ StatusAttr(reply) = "error"

\* the message of an error envelope: the text below its msg node
ErrorMessages(reply) ==
    {n.text : n \in {FindAll(reply.text.root, <<"msg", "line">>)[i] :
                        i \in DOMAIN FindAll(reply.text.root, <<"msg", "line">>)}}

\* the line carries the detail of the failed reply
CarriesDetail(line, reply) ==
    /\ "e" \in DOMAIN line
    /\ IF IsErrorEnvelope(reply) THEN line.e \in ErrorMessages(reply)
       ELSE line.e = RequestException(reply)

C3_ErrorRepliesFail ==
    \A w \in DOMAIN workers : \A k \in DOMAIN workers[w].got :
        (IsTransportFailure(workers[w].got[k]) \/ IsErrorEnvelope(workers[w].got[k]))
        => /\ Len(OutcomesOf(w, k)) = 1
           /\ OutcomesOf(w, k)[1].kind = "ErrorFor"
           /\ NamesDevice(OutcomesOf(w, k)[1], workers[w].selected_serials[k])
           /\ CarriesDetail(OutcomesOf(w, k)[1], workers[w].got[k])
           /\ TrackersFor(w, k) = {}

C5_ErrorsStayLocal ==
    /\ \A w \in DOMAIN workers :
          /\ workers[w].uncaught = None
          /\ \A k \in DOMAIN workers[w].got : OutcomesOf(w, k) # <<>>
    /\ \A t \in DOMAIN trackers : trackers[t].uncaught = None

C7_EnqueuedFirst ==
    \A t \in DOMAIN trackers :
        LET me == trackers[t] IN
        /\ Len(workers[me.by.id].got) >= me.by.idx
        /\ JobIdIn(workers[me.by.id].got[me.by.idx]) = me.job_id
        /\ \E j \in DOMAIN log :
              /\ writer[j] = me.by
              /\ log[j].kind = "JobEnqueued"
              /\ log[j].job_id = me.job_id
              /\ NamesDevice(log[j], me.serial)
              /\ \A i \in DOMAIN log :
                    (writer[i].role = "tracker" /\ writer[i].id = t) => j < i

\* a tracker has written a line and has another query in flight
C7_Witness ==
    \E t \in DOMAIN trackers :
        /\ \E i \in DOMAIN log : writer[i].role = "tracker" /\ writer[i].id = t
        /\ InFlight(Who("tracker", t, 0)) # {}

\* the text of ./result/job/<field> in a well-formed body, or None when the
\* node is absent or empty
JobField(reply, field) ==
    LET hits == FindAll(reply.text.root, <<"result", "job", field>>)
    IN  IF hits = <<>> THEN None ELSE hits[1].text

HasJobField(reply, field) ==
    FindAll(reply.text.root, <<"result", "job", field>>) # <<>>

\* the texts of the detail lines of a well-formed body, in order
DetailLines(reply) ==
    LET hits == FindAll(reply.text.root, <<"result", "job", "details", "line">>)
    IN  [i \in DOMAIN hits |-> hits[i].text]

\* the poll reply reports job status `status`
Reports(reply, status) ==
    IsOk(reply) /\ HasJobField(reply, "status") /\ JobField(reply, "status") = status

\* the lines tracker t wrote for its k-th poll
PollLines(t, k) == LinesBy(Who("tracker", t, k))

(* C8: a tracker that reads status "FIN" ends on that poll with exactly one *)
(* line: the success line when the result is "OK", else the failure line    *)
(* with every detail line of the reply, in order.                           *)
C8_FinEndsTracker ==
    \A t \in DOMAIN trackers : \A k \in DOMAIN trackers[t].got :
        LET me == trackers[t]
            reply == me.got[k]
        IN  Reports(reply, "FIN") =>
            /\ k = Len(me.got)
            /\ me.pc = "done"
            /\ PollLines(t, k) =
                 <<IF JobField(reply, "result") = "OK"
                   THEN FinishedOk(me.job_id, me.hostname)
                   ELSE FinishedFailure(me.job_id, me.hostname, DetailLines(reply))>>

(* C9: a tracker that reads status "ACT" goes on polling; the poll writes   *)
(* one progress line with the value of the reply when it has one, and no    *)
(* line when it has none.                                                   *)
C9_ActKeepsPolling ==
    \A t \in DOMAIN trackers : \A k \in DOMAIN trackers[t].got :
        LET me == trackers[t]
            reply == me.got[k]
        IN  Reports(reply, "ACT") =>
            /\ k = Len(me.got) => /\ me.pc \in {"sleep", "await"}
                                  /\ me.asked \in {k, k + 1}
                                  /\ me.pc = "await" <=> me.asked = k + 1
            /\ PollLines(t, k) =
                 IF JobField(reply, "progress") \notin {None, ""}
                 THEN <<Progress(me.job_id, me.hostname, JobField(reply, "progress"))>>
                 ELSE <<>>

\* a tracker read "ACT" without a progress value, polled again and read
\* "ACT" with progress 50: the first poll wrote nothing, the second one line
C9_Witness ==
    \E t \in DOMAIN trackers :
        /\ Len(trackers[t].got) = 2
        /\ Reports(trackers[t].got[1], "ACT")
        /\ ~HasJobField(trackers[t].got[1], "progress")
        /\ Reports(trackers[t].got[2], "ACT")
        /\ JobField(trackers[t].got[2], "progress") = "50"
        /\ trackers[t].pc = "sleep"
        /\ PollLines(t, 1) = <<>>
        /\ Len(PollLines(t, 2)) = 1

(* C10: a tracker whose status query fails at the transport layer writes    *)
(* one error line for its device and job, issues no further query and ends. *)
C10_FailedQueryEndsTracker ==
    \A t \in DOMAIN trackers : \A k \in DOMAIN trackers[t].got :
        LET me == trackers[t]
            reply == me.got[k]
        IN  IsTransportFailure(reply) =>
            /\ k = Len(me.got)
            /\ me.asked = k
            /\ me.pc = "done"
            /\ InFlight(Who("tracker", t, 0)) = {}
            /\ PollLines(t, k) =
                 <<ErrorChecking(me.job_id, me.hostname, RequestException(reply))>>
            /\ NamesDevice(PollLines(t, k)[1], me.serial)

\* a tracker's second query timed out and the tracker has ended
C10_Witness ==
    \E t \in DOMAIN trackers :
        /\ Len(trackers[t].got) = 2
        /\ trackers[t].got[2] = [raises |-> "Timeout"]
        /\ trackers[t].pc = "done"
        /\ Len(PollLines(t, 2)) = 1

----------------------------------------------------------------------------
\* the lines that end a tracker: finished (either way), error, warning
TerminalKinds == {"FinishedOk", "FinishedFailure", "ErrorChecking", "CouldNotDetermine"}

\* all the lines tracker t wrote, oldest first
TrackerLines(t) ==
    LET at == SelectSeq([i \in DOMAIN log |-> i],
                        LAMBDA i : writer[i].role = "tracker" /\ writer[i].id = t)
    IN  [k \in DOMAIN at |-> log[at[k]]]

TerminalLines(t) == SelectSeq(TrackerLines(t), LAMBDA l : l.kind \in TerminalKinds)

(* C11: a tracker whose poll reply gives no job status to read (no          *)
(* ./result/job/status node, or an empty one) writes exactly one warning    *)
(* line for its device and job and stops polling.                           *)
C11_NoStatusWarns ==
    \A t \in DOMAIN trackers : \A k \in DOMAIN trackers[t].got :
        LET me == trackers[t]
            reply == me.got[k]
        IN  (IsOk(reply) /\ JobField(reply, "status") \in {None, ""}) =>
            /\ k = Len(me.got)
            /\ me.pc = "done"
            /\ PollLines(t, k) = <<CouldNotDetermine(me.job_id, me.hostname)>>

(* C12: terminal states absorb: the poll on which a tracker writes a        *)
(* terminal line writes nothing else and is its last: no query and no line  *)
(* follows, so a tracker writes at most one terminal line.                  *)
C12_TerminalAbsorbs ==
    \A t \in DOMAIN trackers :
        LET me == trackers[t] IN
        /\ Len(TerminalLines(t)) <= 1
        /\ \A k \in 1..me.asked :
              (\E i \in DOMAIN PollLines(t, k) : PollLines(t, k)[i].kind \in TerminalKinds)
              => /\ Len(PollLines(t, k)) = 1
                 /\ k = Len(me.got)
                 /\ me.asked = k
                 /\ me.pc = "done"
                 /\ InFlight(Who("tracker", t, 0)) = {}
                 /\ TrackerLines(t)[Len(TrackerLines(t))] = PollLines(t, k)[1]

\* a tracker wrote a progress line, then the success line on its second
\* poll, and has ended
C12_Witness ==
    \E t \in DOMAIN trackers :
        /\ Len(trackers[t].got) = 2
        /\ Len(TrackerLines(t)) = 2
        /\ TrackerLines(t)[1].kind = "Progress"
        /\ TrackerLines(t)[2].kind = "FinishedOk"
        /\ trackers[t].pc = "done"

(* C13: a tracker that has stopped polling has written exactly one terminal *)
(* line, naming its device and job: no reply ends a tracker silently.       *)
C13_NoSilentExit ==
    \A t \in DOMAIN trackers :
        trackers[t].pc \in {"done", "crashed"} =>
            /\ Len(TerminalLines(t)) = 1
            /\ TerminalLines(t)[1].job_id = trackers[t].job_id
            /\ NamesDevice(TerminalLines(t)[1], trackers[t].serial)

(* C14: the polls of one job are sequential: a tracker has at most one      *)
(* query outstanding, namely while it awaits a reply, and it has issued     *)
(* exactly one query more than it has replies then and as many as replies   *)
(* otherwise.                                                               *)
C14_PollsSequential ==
    \A t \in DOMAIN trackers :
        LET me == trackers[t]
            mine == InFlight(Who("tracker", t, 0))
        IN  /\ Cardinality(mine) <= 1
            /\ mine # {} <=> me.pc = "await"
            /\ me.asked = Len(me.got) + (IF me.pc = "await" THEN 1 ELSE 0)
            /\ me.pc = "start" => me.asked = 0
            /\ \A r \in mine : r.target = me.serial /\ r.cmd = ShowJob(me.job_id)

\* a tracker awaits the reply of its second query, the first one classified
C14_Witness ==
    \E t \in DOMAIN trackers :
        /\ trackers[t].asked = 2
        /\ Len(trackers[t].got) = 1
        /\ trackers[t].pc = "await"
        /\ Cardinality(InFlight(Who("tracker", t, 0))) = 1

(* C15: a job-producing command whose reply carries job id J gives that     *)
(* device exactly one "Job enqueued" line for J and exactly one tracker,    *)
(* and a tracker of J that is told "FIN" ends there with a terminal line.   *)
C15_EnqueuedThenTerminal ==
    /\ \A w \in DOMAIN workers : \A k \in DOMAIN workers[w].got :
          LET me == workers[w]
              reply == me.got[k]
          IN  (me.command_name \in JobCommands /\ IsOk(reply) /\ JobIdIn(reply) # None) =>
              /\ OutcomesOf(w, k) =
                   <<JobEnqueued(JobIdIn(reply), OutcomesOf(w, k)[1].hostname)>>
              /\ NamesDevice(OutcomesOf(w, k)[1], me.selected_serials[k])
              /\ Cardinality(TrackersFor(w, k)) = 1
              /\ \A t \in TrackersFor(w, k) :
                    trackers[t].job_id = JobIdIn(reply)
                      /\ trackers[t].serial = me.selected_serials[k]
    /\ \A t \in DOMAIN trackers :
          (trackers[t].got # <<>>
             /\ Reports(trackers[t].got[Len(trackers[t].got)], "FIN")) =>
              /\ trackers[t].pc = "done"
              /\ Len(TerminalLines(t)) = 1

(* C16: a missing version is caught before any request goes out.  In the    *)
(* TUI no worker of a command whose template has a {version} field exists   *)
(* without a version chosen from the dropdown, and no request carries the   *)
(* field unfilled; a run of the script for such a command without a version *)
(* sends no request at all, and no URL it requests has the field unfilled.  *)
HasVersionField(template) == \E i \in DOMAIN template : template[i] = "{version}"

C16_MissingVersionStopsRun ==
    /\ \A w \in DOMAIN workers :
          LET me == workers[w] IN
          /\ HasVersionField(URL_CHOICES[me.command_name].cmd)
               => me.version \notin {BLANK, None, ""}
          /\ me.asked # <<>> => ~HasVersionField(CommandXml(me.command_name, me.version))
    /\ \A r \in network : ~HasVersionField(r.cmd)
    /\ script.pc = "exited" =>
          /\ (HasVersionField(script.check_to_run.template)
                /\ ~Truthy(script.version_number)) => script.ran.requests = <<>>
          /\ \A k \in DOMAIN script.ran.requests : ~HasVersionField(script.ran.requests[k])

\* a download or install was pressed with nothing chosen in the dropdown and
\* refused, and the script was run for hosts without a version and stopped
\* on the KeyError of line 91; no request was sent
C16_Witness ==
    /\ \E i \in DOMAIN log : log[i] = SelectVersionFirst
    /\ workers = <<>>
    /\ script.pc = "exited"
    /\ script.hosts # <<>>
    /\ script.check_to_run.requires_version
    /\ script.version_number = ""
    /\ script.ran.raised = "KeyError"
    /\ script.ran.requests = <<>>
    /\ sent = 0

(* C19: of a device list the fetch keeps exactly the entries that have a    *)
(* hostname and a serial element, records serial -> hostname for each, and  *)
(* lists them ordered by hostname, devices of one hostname by serial.      *)
HasBoth(entry) ==
    Find(entry, <<"hostname">>) # NoNode /\ Find(entry, <<"serial">>) # NoNode

\* the device shown as option a comes before the one shown as b: by
\* hostname, then by serial
DeviceBefore(a, b) ==
    \/ StrLess(Chars[a.prompt[1]], Chars[b.prompt[1]])
    \/ a.prompt[1] = b.prompt[1] /\ StrLess(Chars[a.value], Chars[b.value])

C19_KeepsAndSorts ==
    \A f \in DOMAIN fetchers :
        LET me == fetchers[f]
            reply == me.got[1]
            entries == FindAll(reply.text.root, <<"result", "devices", "entry">>)
            kept == SelectSeq(entries, HasBoth)
            shown == {Selection(Find(kept[i], <<"hostname">>).text,
                                Find(kept[i], <<"serial">>).text) : i \in DOMAIN kept}
        IN  (me.pc = "done" /\ me.got # <<>> /\ IsOk(me.got[1])) =>
            /\ Len(me.options) = Len(kept)
            /\ {me.options[i] : i \in DOMAIN me.options} = shown
            /\ \A i, j \in DOMAIN me.options : i < j => ~DeviceBefore(me.options[j], me.options[i])
            /\ (\A g \in DOMAIN fetchers : g # f => fetchers[g].pc = "start") =>
                  /\ options = me.options
                  /\ DOMAIN serial_to_hostname = {x.value : x \in shown}
                  /\ \A x \in shown : serial_to_hostname[x.value] = x.prompt[1]
                  /\ log[Len(log)] = FoundDevices(Len(kept))

\* a fetch was answered with three entries, one of them without a serial,
\* and shows the other two in the opposite order
C19_Witness ==
    \E f \in DOMAIN fetchers :
        LET me == fetchers[f] IN
        /\ me.pc = "done"
        /\ me.got # <<>>
        /\ IsOk(me.got[1])
        /\ me.got[1].text = DevicesBody(<<Device("fw-a", "0011"),
                                          E("entry", {}, None, <<Leaf("hostname", "fw-b")>>),
                                          Device("fw", "0022")>>)
        /\ options = <<Selection("fw", "0022"), Selection("fw-a", "0011")>>
        /\ DOMAIN serial_to_hostname = {"0011", "0022"}

(* C17: an error envelope whose message contains "authentication failed",  *)
(* in any letter case, is reported by the one line that names the           *)
(* authentication failure, whichever operation received it: the device      *)
(* fetch, the version check, a command or a job poll.                       *)
IsAuthFailure(reply) ==
    /\ IsErrorEnvelope(reply)
    /\ FindDeep(reply.text.root, "msg") # NoNode
    /\ FindDeep(reply.text.root, "msg").text # None
    /\ Contains(Chars["authentication failed"],
                Lower(Chars[FindDeep(reply.text.root, "msg").text]))

C17_AuthFailureDistinguished ==
    /\ \A f \in DOMAIN fetchers : \A k \in DOMAIN fetchers[f].got :
          IsAuthFailure(fetchers[f].got[k])
            => LinesBy(Who("fetch", f, k)) = <<AuthenticationFailed>>
    /\ \A c \in DOMAIN checkers : \A k \in DOMAIN checkers[c].got :
          IsAuthFailure(checkers[c].got[k])
            => LinesBy(Who("check", c, k)) = <<AuthenticationFailed>>
    /\ \A w \in DOMAIN workers : \A k \in DOMAIN workers[w].got :
          IsAuthFailure(workers[w].got[k])
            => OutcomesOf(w, k) = <<AuthenticationFailed>>
    /\ \A t \in DOMAIN trackers : \A k \in DOMAIN trackers[t].got :
          IsAuthFailure(trackers[t].got[k])
            => PollLines(t, k) = <<AuthenticationFailed>>

(* C20: no request is ever issued with an empty username or an empty        *)
(* password.  A worker spawned by a press without both credentials is never *)
(* a fetch, finds no device selected and returns with that error line       *)
(* before any request.                                                      *)
HasCredentials(auth) == Truthy(auth[1]) /\ Truthy(auth[2])

C21_QueriesFollowDispatch ==
    \A t \in DOMAIN trackers : \A r \in InFlight(Who("tracker", t, 0)) :
        LET by == trackers[t].by
            dispatch == workers[by.id]
        IN  /\ r.pano_ip = dispatch.pano_ip
            /\ r.auth = dispatch.auth
            /\ r.target = dispatch.selected_serials[by.idx]

(* C18: every outcome line (enqueued, success, failure, progress, ongoing,  *)
(* warning, error) itself names the device it is about.                     *)
OutcomeKinds ==
    {"JobEnqueued", "NoJobId", "Success", "ErrorFor", "CouldNotDetermine",
     "FinishedOk", "FinishedFailure", "Progress", "Ongoing", "ErrorChecking"}

DeviceOf(who) ==
    IF who.role = "tracker" THEN trackers[who.id].serial
    ELSE workers[who.id].selected_serials[who.idx]

C18_OutcomesNameDevice ==
    \A i \in DOMAIN log :
        log[i].kind \in OutcomeKinds => NamesDevice(log[i], DeviceOf(writer[i]))

====
